---- MODULE Spec2Model ----
(***************************************************************************)
(* Model of the payment engine's ledger: `process` in src/lib.rs folds an  *)
(* ordered stream of records into the two maps `accounts` and `txns`, with *)
(* the account arithmetic of src/domain.rs.  One action per record kind;   *)
(* the record read at each iteration is chosen nondeterministically, so    *)
(* the behaviours of Spec are the prefixes of every record sequence.       *)
(*                                                                         *)
(* Amounts are the `inner: i64` of Amount (value scaled by 10^4).  The     *)
(* amounts explored are small, so the i64 range is never left.             *)
(***************************************************************************)
EXTENDS Integers, FiniteSets, Sequences, TLC

\* ---- bounds of the exploration ----
MaxRecords == 4     \* longest input explored by Spec
MaxAmount == 1      \* largest scaled amount a record carries

\* ClientID is u16 and TxnID is u32; the keys are opaque, two of each are used
ClientIDs == {1, 2}
TxnIDs == {1, 2}
\* the amount column is parsed as f64, so it may be negative or zero
Amounts == {0 - 1} \cup (0..MaxAmount)

VARIABLES
    accounts,    \* HashMap<ClientID, Account>
    txns,        \* HashMap<TxnID, TxnRecord>
    status,      \* "running" | "done" | "error" | "panicked"
    output,      \* the account rows written to the writer
    nread,       \* number of records read so far
    limit,       \* longest input explored (fixed by the initial state)
    last,        \* the record handled by the latest iteration (history)
    pre,         \* the two maps as they were before that iteration (history)
    chargedBack, \* tx ids a ChargeBack has been applied to (history)
    reused,      \* charged-back tx ids stored again by a later record (history)
    seenTx,      \* tx ids carried by the Deposit/Withdrawal records read (history)
    amountField, \* the text of an amount column handed to Amount's Deserialize
    parsed,      \* what Amount::try_from_f64 returned for it
    shown        \* what Amount's Serialize wrote for the parsed amount

vars == <<accounts, txns, status, output, nread, limit, last, pre, chargedBack, reused,
          seenTx, amountField, parsed, shown>>

\* the variables of the amount conversion, which the ledger loop leaves alone
amountVars == <<amountField, parsed, shown>>

EmptyMap == [x \in {} |-> 0]

NoRecord == [kind |-> "none", client |-> 0, tx |-> 0, amount |-> 0]

\* placeholders of the amount conversion's variables before it has run
NoText == [cls |-> "none", neg |-> FALSE, digits |-> 0, scale |-> 0]
NoAmount == [tag |-> "none", inner |-> 0, sat |-> "no"]
NoF64 == [cls |-> "none", neg |-> FALSE, bits |-> <<>>, exp |-> 0]

TxnKinds == {"deposit", "withdrawal"}
DisputeKinds == {"dispute", "resolve", "chargeback"}

\* ---- domain.rs: Amount arithmetic ----
Add(a, b) == a + b
Sub(a, b) == a - b

\* ---- domain.rs: Account ----
AccountNew(client) ==
    [client |-> client, available |-> 0, held |-> 0, total |-> 0, locked |-> FALSE]

\* mutant: the available funds are credited but the total is not
deposit_KeepsTotal(acc, amount) ==
    [acc EXCEPT !.available = Add(@, amount)]

deposit(acc, amount) ==
    [acc EXCEPT !.available = Add(@, amount), !.total = Add(@, amount)]

\* mutant: the available funds are not compared with the amount
withdraw_Unchecked(acc, amount) ==
    [acc EXCEPT !.available = Sub(@, amount), !.total = Sub(@, amount)]

\* mutant: a withdrawal of exactly the available funds is refused
withdraw_RefusesExact(acc, amount) ==
    IF acc.available <= amount
    THEN acc
    ELSE [acc EXCEPT !.available = Sub(@, amount), !.total = Sub(@, amount)]

withdraw(acc, amount) ==
    IF acc.available < amount
    THEN acc
    ELSE [acc EXCEPT !.available = Sub(@, amount), !.total = Sub(@, amount)]

\* mutant: the held funds grow but the available funds are not debited
hold_NoDebit(acc, amount) ==
    [acc EXCEPT !.held = Add(@, amount)]

hold(acc, amount) ==
    [acc EXCEPT !.available = Sub(@, amount), !.held = Add(@, amount)]

\* mutant: the available funds grow but the held funds are not released
resolve_KeepsHeld(acc, amount) ==
    [acc EXCEPT !.available = Add(@, amount)]

resolve(acc, amount) ==
    [acc EXCEPT !.held = Sub(@, amount), !.available = Add(@, amount)]

\* mutant: the total is reduced but the held funds stay
charge_back_KeepsHeld(acc, amount) ==
    [acc EXCEPT !.total = Sub(@, amount)]

\* mutant: the held funds are removed but the total is not
charge_back_KeepsTotal(acc, amount) ==
    [acc EXCEPT !.held = Sub(@, amount)]

charge_back(acc, amount) ==
    [acc EXCEPT !.held = Sub(@, amount), !.total = Sub(@, amount)]

\* mutant: the flag is not set
lock_Noop(acc) == acc

lock(acc) == [acc EXCEPT !.locked = TRUE]

\* ---- domain.rs: TxnRecord as deserialized (state is #[serde(skip)], default) ----
TxnRecord(kind, client, tx, amount) ==
    [kind |-> kind, client |-> client, tx |-> tx, amount |-> amount,
     state |-> "Undisputed"]

\* HashMap::insert: the new value replaces any value under the same key
Insert(map, key, value) == (key :> value) @@ map

\* ---- lib.rs: the guards of the three dispute-family branches ----
\* mutant: only a transaction under dispute is refused, a reversed one is not
DisputeApplies_AlsoReversed(txn) == txn.state # "Disputed"

\* mutant: a resolve is accepted in any state
ResolveApplies_Always(txn) == TRUE

DisputeApplies(txn) == txn.state = "Undisputed"
ResolveApplies(txn) == txn.state = "Disputed"
ChargeBackApplies(txn) == txn.state = "Disputed"

\* the state of `process` on entry: both maps empty, nothing read or written
Start ==
    /\ accounts = EmptyMap
    /\ txns = EmptyMap
    /\ status = "running"
    /\ output = EmptyMap
    /\ nread = 0
    /\ last = NoRecord
    /\ pre = [accounts |-> EmptyMap, txns |-> EmptyMap]
    /\ chargedBack = {}
    /\ reused = {}
    /\ seenTx = {}
    /\ parsed = NoAmount
    /\ shown = NoF64

Init == Start /\ limit = MaxRecords /\ amountField = NoText

\* one iteration of the `for result in ...deserialize()` loop reads `rec`
Read(rec) ==
    /\ status = "running"
    /\ nread < limit
    /\ nread' = nread + 1
    /\ limit' = limit
    /\ seenTx' = IF rec.kind \in TxnKinds THEN seenTx \cup {rec.tx} ELSE seenTx
    /\ UNCHANGED amountVars
    /\ last' = rec
    /\ pre' = [accounts |-> accounts, txns |-> txns]
    /\ output' = output

\* txns.insert(record.tx, record), reached unless the branch `continue`d
Store(rec) ==
    /\ txns' = Insert(txns, rec.tx, TxnRecord(rec.kind, rec.client, rec.tx, rec.amount))
    /\ reused' = reused \cup ({rec.tx} \cap chargedBack)

\* mutant: a locked account is treated like a missing one and replaced
Deposit_ReplacesLocked(c, tx, a) ==
    LET rec == [kind |-> "deposit", client |-> c, tx |-> tx, amount |-> a] IN
    /\ Read(rec)
    /\ status' = status
    /\ chargedBack' = chargedBack
    /\ IF c \in DOMAIN accounts /\ ~accounts[c].locked
       THEN accounts' = [accounts EXCEPT ![c] = deposit(@, a)]
       ELSE accounts' = Insert(accounts, c, deposit(AccountNew(c), a))
    /\ Store(rec)

Deposit(c, tx, a) ==
    LET rec == [kind |-> "deposit", client |-> c, tx |-> tx, amount |-> a] IN
    /\ Read(rec)
    /\ status' = status
    /\ chargedBack' = chargedBack
    /\ IF c \in DOMAIN accounts
       THEN IF accounts[c].locked
            THEN UNCHANGED <<accounts, txns, reused>>
            ELSE /\ accounts' = [accounts EXCEPT ![c] = deposit(@, a)]
                 /\ Store(rec)
       ELSE /\ accounts' = Insert(accounts, c, deposit(AccountNew(c), a))
            /\ Store(rec)

\* mutant: the withdrawal is attempted on the account just created
Withdrawal_DebitsNewAccount(c, tx, a) ==
    LET rec == [kind |-> "withdrawal", client |-> c, tx |-> tx, amount |-> a] IN
    /\ Read(rec)
    /\ status' = status
    /\ chargedBack' = chargedBack
    /\ IF c \in DOMAIN accounts
       THEN IF accounts[c].locked
            THEN UNCHANGED <<accounts, txns, reused>>
            ELSE /\ accounts' = [accounts EXCEPT ![c] = withdraw(@, a)]
                 /\ Store(rec)
       ELSE /\ accounts' = Insert(accounts, c, withdraw(AccountNew(c), a))
            /\ Store(rec)

\* mutant: the locked flag is not consulted before debiting
Withdrawal_IgnoresLock(c, tx, a) ==
    LET rec == [kind |-> "withdrawal", client |-> c, tx |-> tx, amount |-> a] IN
    /\ Read(rec)
    /\ status' = status
    /\ chargedBack' = chargedBack
    /\ IF c \in DOMAIN accounts
       THEN accounts' = [accounts EXCEPT ![c] = withdraw(@, a)]
       ELSE accounts' = Insert(accounts, c, AccountNew(c))
    /\ Store(rec)

Withdrawal(c, tx, a) ==
    LET rec == [kind |-> "withdrawal", client |-> c, tx |-> tx, amount |-> a] IN
    /\ Read(rec)
    /\ status' = status
    /\ chargedBack' = chargedBack
    /\ IF c \in DOMAIN accounts
       THEN IF accounts[c].locked
            THEN UNCHANGED <<accounts, txns, reused>>
            ELSE /\ accounts' = [accounts EXCEPT ![c] = withdraw(@, a)]
                 /\ Store(rec)
       ELSE /\ accounts' = Insert(accounts, c, AccountNew(c))
            /\ Store(rec)

\* `continue`: the record changes nothing
Skip == UNCHANGED <<accounts, txns, status, chargedBack, reused>>

\* mutant: a missing account is skipped like the other no-op cases
Panic_Skips == Skip

\* `.expect("account to have been created earlier for this client")` on None
Panic ==
    /\ status' = "panicked"
    /\ UNCHANGED <<accounts, txns, chargedBack, reused>>

\* mutant: an unknown tx id is treated as a broken invariant
Dispute_UnknownTxPanics(c, tx) ==
    LET rec == [kind |-> "dispute", client |-> c, tx |-> tx, amount |-> 0] IN
    /\ Read(rec)
    /\ IF tx \notin DOMAIN txns THEN Panic
       ELSE IF ~DisputeApplies(txns[tx]) THEN Skip
       ELSE IF c \notin DOMAIN accounts THEN Panic
       ELSE /\ accounts' = [accounts EXCEPT ![c] = hold(@, txns[tx].amount)]
            /\ txns' = [txns EXCEPT ![tx].state = "Disputed"]
            /\ UNCHANGED <<status, chargedBack, reused>>

Dispute(c, tx) ==
    LET rec == [kind |-> "dispute", client |-> c, tx |-> tx, amount |-> 0] IN
    /\ Read(rec)
    /\ IF tx \notin DOMAIN txns THEN Skip
       ELSE IF ~DisputeApplies(txns[tx]) THEN Skip
       ELSE IF c \notin DOMAIN accounts THEN Panic
       ELSE /\ accounts' = [accounts EXCEPT ![c] = hold(@, txns[tx].amount)]
            /\ txns' = [txns EXCEPT ![tx].state = "Disputed"]
            /\ UNCHANGED <<status, chargedBack, reused>>

Resolve(c, tx) ==
    LET rec == [kind |-> "resolve", client |-> c, tx |-> tx, amount |-> 0] IN
    /\ Read(rec)
    /\ IF tx \notin DOMAIN txns THEN Skip
       ELSE IF ~ResolveApplies(txns[tx]) THEN Skip
       ELSE IF c \notin DOMAIN accounts THEN Panic
       ELSE /\ accounts' = [accounts EXCEPT ![c] = resolve(@, txns[tx].amount)]
            /\ txns' = [txns EXCEPT ![tx].state = "Undisputed"]
            /\ UNCHANGED <<status, chargedBack, reused>>

\* mutant: the transaction is not marked Reversed
ChargeBack_KeepsDisputed(c, tx) ==
    LET rec == [kind |-> "chargeback", client |-> c, tx |-> tx, amount |-> 0] IN
    /\ Read(rec)
    /\ IF tx \notin DOMAIN txns THEN Skip
       ELSE IF ~ChargeBackApplies(txns[tx]) THEN Skip
       ELSE IF c \notin DOMAIN accounts THEN Panic
       ELSE /\ accounts' = [accounts EXCEPT ![c] = lock(charge_back(@, txns[tx].amount))]
            /\ txns' = txns
            /\ chargedBack' = chargedBack \cup {tx}
            /\ reused' = reused \ {tx}
            /\ status' = status

ChargeBack(c, tx) ==
    LET rec == [kind |-> "chargeback", client |-> c, tx |-> tx, amount |-> 0] IN
    /\ Read(rec)
    /\ IF tx \notin DOMAIN txns THEN Skip
       ELSE IF ~ChargeBackApplies(txns[tx]) THEN Skip
       ELSE IF c \notin DOMAIN accounts THEN Panic
       ELSE /\ accounts' = [accounts EXCEPT ![c] = lock(charge_back(@, txns[tx].amount))]
            /\ txns' = [txns EXCEPT ![tx].state = "Reversed"]
            /\ chargedBack' = chargedBack \cup {tx}
            /\ reused' = reused \ {tx}
            /\ status' = status

\* mutant: the accounts formed so far are written before the error is returned
Malformed_WritesAccounts ==
    /\ status = "running"
    /\ nread < limit
    /\ status' = "error"
    /\ nread' = nread + 1
    /\ limit' = limit
    /\ last' = [NoRecord EXCEPT !.kind = "malformed"]
    /\ pre' = [accounts |-> accounts, txns |-> txns]
    /\ output' = accounts
    /\ UNCHANGED <<accounts, txns, chargedBack, reused, seenTx>>
    /\ UNCHANGED amountVars

\* `let record: Record = result?;` on a row that does not deserialize
Malformed ==
    /\ status = "running"
    /\ nread < limit
    /\ status' = "error"
    /\ nread' = nread + 1
    /\ limit' = limit
    /\ last' = [NoRecord EXCEPT !.kind = "malformed"]
    /\ pre' = [accounts |-> accounts, txns |-> txns]
    /\ UNCHANGED <<accounts, txns, output, chargedBack, reused, seenTx>>
    /\ UNCHANGED amountVars

\* end of input: every account is serialized to the writer
Finish ==
    /\ status = "running"
    /\ status' = "done"
    /\ output' = accounts
    /\ UNCHANGED <<accounts, txns, nread, limit, last, pre, chargedBack, reused, seenTx>>
    /\ UNCHANGED amountVars

Next ==
    \/ \E c \in ClientIDs, tx \in TxnIDs, a \in Amounts : Deposit(c, tx, a)
    \/ \E c \in ClientIDs, tx \in TxnIDs, a \in Amounts : Withdrawal(c, tx, a)
    \/ \E c \in ClientIDs, tx \in TxnIDs : Dispute(c, tx)
    \/ \E c \in ClientIDs, tx \in TxnIDs : Resolve(c, tx)
    \/ \E c \in ClientIDs, tx \in TxnIDs : ChargeBack(c, tx)
    \/ Malformed
    \/ Finish

Spec == Init /\ [][Next]_vars

\* Longer inputs over a single tx id and a single amount: the inputs in which
\* a tx id is used again after its transaction went through a whole dispute.
ReuseTxnIDs == {1}
ReuseAmounts == {1}

InitReuse == Start /\ limit = MaxRecords + 1 /\ amountField = NoText

NextReuse ==
    \/ \E c \in ClientIDs, tx \in ReuseTxnIDs, a \in ReuseAmounts : Deposit(c, tx, a)
    \/ \E c \in ClientIDs, tx \in ReuseTxnIDs, a \in ReuseAmounts : Withdrawal(c, tx, a)
    \/ \E c \in ClientIDs, tx \in ReuseTxnIDs : Dispute(c, tx)
    \/ \E c \in ClientIDs, tx \in ReuseTxnIDs : Resolve(c, tx)
    \/ \E c \in ClientIDs, tx \in ReuseTxnIDs : ChargeBack(c, tx)
    \/ Malformed
    \/ Finish

SpecReuse == InitReuse /\ [][NextReuse]_vars

\* Well-formed inputs: no amount is negative, no tx id is carried by two
\* Deposit/Withdrawal records, and a dispute-family record names the client
\* of the stored transaction it references.
WellFormedAmounts == 0..MaxAmount

FreshTx(tx) == tx \notin seenTx

OwnersClient(c, tx) == tx \in DOMAIN txns => txns[tx].client = c

InitWellFormed == Start /\ limit = MaxRecords + 2 /\ amountField = NoText

NextWellFormed ==
    \/ \E c \in ClientIDs, tx \in TxnIDs, a \in WellFormedAmounts :
          FreshTx(tx) /\ Deposit(c, tx, a)
    \/ \E c \in ClientIDs, tx \in TxnIDs, a \in WellFormedAmounts :
          FreshTx(tx) /\ Withdrawal(c, tx, a)
    \/ \E c \in ClientIDs, tx \in TxnIDs : OwnersClient(c, tx) /\ Dispute(c, tx)
    \/ \E c \in ClientIDs, tx \in TxnIDs : OwnersClient(c, tx) /\ Resolve(c, tx)
    \/ \E c \in ClientIDs, tx \in TxnIDs : OwnersClient(c, tx) /\ ChargeBack(c, tx)
    \/ Malformed
    \/ Finish

SpecWellFormed == InitWellFormed /\ [][NextWellFormed]_vars

TypeOK ==
    /\ DOMAIN accounts \subseteq ClientIDs
    /\ DOMAIN txns \subseteq TxnIDs
    /\ status \in {"running", "done", "error", "panicked"}
    /\ nread \in 0..limit

(***************************************************************************)
(* The amount conversion of src/domain.rs.  The amount column is parsed    *)
(* to an f64, multiplied by 10^4 in f64 arithmetic, truncated and cast to  *)
(* i64; writing divides the i64 by 10^4 in f64 arithmetic.  An f64 is      *)
(* modelled as IEEE 754 binary64: a finite non-zero value is its 53        *)
(* significand bits (most significant first) and the exponent `exp` of the *)
(* first bit, so that it equals  SUM bits[i] * 2^(exp - i + 1);  every     *)
(* operation rounds to nearest, ties to even.  The values explored are far *)
(* from the subnormal and overflow ranges, which are not modelled.         *)
(***************************************************************************)
DECIMALS_PRECISION == 4
Scale == 10 ^ DECIMALS_PRECISION
MantBits == 53

MaxUnits == 30      \* largest four-decimal amount text explored, in units of 0.0001

F64Zero == [cls |-> "zero", neg |-> FALSE, bits |-> <<>>, exp |-> 0]
F64NaN == [cls |-> "nan", neg |-> FALSE, bits |-> <<>>, exp |-> 0]
F64Inf(neg) == [cls |-> "inf", neg |-> neg, bits |-> <<>>, exp |-> 0]

Zeros(k) == [i \in 1..k |-> 0]

\* the binary digits of a natural number, most significant first
RECURSIVE BinOf(_)
BinOf(n) == IF n = 0 THEN <<>> ELSE Append(BinOf(n \div 2), n % 2)

\* the natural number a short bit sequence denotes
RECURSIVE IntOfBits(_)
IntOfBits(b) ==
    IF b = <<>> THEN 0
    ELSE 2 * IntOfBits(SubSeq(b, 1, Len(b) - 1)) + b[Len(b)]

\* the w binary digits of v < 2^w, most significant first
BitsOf(v, w) == [i \in 1..w |-> (v \div (2 ^ (w - i))) % 2]

\* b + 1 on a bit sequence of fixed length, with the carry out
IncBits(b) ==
    LET zeros == {i \in 1..Len(b) : b[i] = 0} IN
    IF zeros = {} THEN [bits |-> Zeros(Len(b)), carry |-> TRUE]
    ELSE LET p == CHOOSE i \in zeros : \A j \in zeros : j <= i
         IN [bits |-> [i \in 1..Len(b) |-> IF i < p THEN b[i] ELSE IF i = p THEN 1 ELSE 0],
             carry |-> FALSE]

\* round to nearest, ties to even: b holds at least MantBits + 1 bits of a
\* value whose first bit is 1 and has exponent e; `sticky` tells whether
\* non-zero bits follow b
RoundF64(neg, b, sticky, e) ==
    LET mant == SubSeq(b, 1, MantBits)
        guard == b[MantBits + 1]
        rest == sticky \/ \E i \in (MantBits + 2)..Len(b) : b[i] = 1
        up == guard = 1 /\ (rest \/ mant[MantBits] = 1)
        inc == IncBits(mant)
    IN IF ~up THEN [cls |-> "finite", neg |-> neg, bits |-> mant, exp |-> e]
       ELSE IF inc.carry
       THEN [cls |-> "finite", neg |-> neg,
             bits |-> <<1>> \o Zeros(MantBits - 1), exp |-> e + 1]
       ELSE [cls |-> "finite", neg |-> neg, bits |-> inc.bits, exp |-> e]

\* the next k binary digits of r / d (0 <= r < d) and the remainder left,
\* computed several digits at a time (as many as keep r * 2^m a small integer)
RECURSIVE FracBits(_, _, _)
FracBits(r, d, k) ==
    IF k = 0 THEN [bits |-> <<>>, rem |-> r]
    ELSE LET step == IF d < 2 ^ 15 THEN 16 ELSE 4
             m == IF k < step THEN k ELSE step
             t == r * (2 ^ m)
             rest == FracBits(t % d, d, k - m)
         IN [bits |-> BitsOf(t \div d, m) \o rest.bits, rem |-> rest.rem]

\* the leading zero binary digits of r / d (0 < r < d), and r shifted past them
RECURSIVE SkipZeros(_, _)
SkipZeros(r, d) ==
    IF 2 * r >= d THEN [z |-> 0, r |-> r]
    ELSE LET s == SkipZeros(2 * r, d) IN [z |-> s.z + 1, r |-> s.r]

\* <f64 as FromStr>: the f64 nearest to the decimal (-1)^neg * n / 10^scale
DecimalToF64(neg, n, scale) ==
    LET d == 10 ^ scale
        ib == BinOf(n \div d)
        r == n % d
    IN IF n = 0 THEN F64Zero
       ELSE IF ib # <<>>
       THEN LET fb == FracBits(r, d, MantBits + 1 - Len(ib))
            IN RoundF64(neg, ib \o fb.bits, fb.rem # 0, Len(ib) - 1)
       ELSE LET s == SkipZeros(r, d)
                fb == FracBits(s.r, d, MantBits + 1)
            IN RoundF64(neg, fb.bits, fb.rem # 0, 0 - (s.z + 1))

\* the f64 the csv field denotes (Deserialize::deserialize for f64)
ParseF64(text) ==
    CASE text.cls = "nan" -> F64NaN
      [] text.cls = "inf" -> F64Inf(text.neg)
      [] OTHER -> DecimalToF64(text.neg, text.digits, text.scale)

\* bits * k + carry as a bit sequence, for a small k (k < 2^15), computed
\* sixteen bits at a time from the least significant end
RECURSIVE MulBits(_, _, _)
MulBits(b, k, carry) ==
    IF b = <<>> THEN BinOf(carry)
    ELSE LET m == IF Len(b) < 16 THEN Len(b) ELSE 16
             low == IntOfBits(SubSeq(b, Len(b) - m + 1, Len(b)))
             t == low * k + carry
         IN MulBits(SubSeq(b, 1, Len(b) - m), k, t \div (2 ^ m)) \o BitsOf(t % (2 ^ m), m)

\* f64 multiplication by the small integer k (exactly representable)
F64MulSmall(f, k) ==
    IF f.cls # "finite" THEN f
    ELSE LET p == MulBits(f.bits, k, 0)
         IN RoundF64(f.neg, p \o <<0>>, FALSE, f.exp + (Len(p) - MantBits))

\* the quotient digits of the long division of the bit sequence b by a
\* small k (k < 2^15), starting with remainder r < k; one digit per bit of
\* b, computed sixteen bits at a time
RECURSIVE DivBits(_, _, _)
DivBits(b, k, r) ==
    IF b = <<>> THEN [bits |-> <<>>, rem |-> r]
    ELSE LET m == IF Len(b) < 16 THEN Len(b) ELSE 16
             t == r * (2 ^ m) + IntOfBits(SubSeq(b, 1, m))
             rest == DivBits(SubSeq(b, m + 1, Len(b)), k, t % k)
         IN [bits |-> BitsOf(t \div k, m) \o rest.bits, rem |-> rest.rem]

\* the number of leading zeros of a bit sequence that holds a 1
LeadingZeros(b) ==
    (CHOOSE i \in 1..Len(b) : b[i] = 1 /\ \A j \in 1..(i - 1) : b[j] = 0) - 1

\* f64 division by the small integer k (exactly representable)
F64DivSmall(f, k) ==
    IF f.cls # "finite" THEN f
    ELSE LET width == Len(BinOf(k))
             q == DivBits(f.bits \o Zeros(width + 1), k, 0)
             z == LeadingZeros(q.bits)
         IN RoundF64(f.neg, SubSeq(q.bits, z + 1, Len(q.bits)), q.rem # 0, f.exp - z)

\* f64::trunc: the fraction bits are cleared
F64Trunc(f) ==
    IF f.cls # "finite" THEN f
    ELSE IF f.exp < 0 THEN F64Zero
    ELSE IF f.exp >= MantBits - 1 THEN f
    ELSE [f EXCEPT !.bits = SubSeq(f.bits, 1, f.exp + 1) \o Zeros(MantBits - 1 - f.exp)]

\* `as i64` on an f64 saturates and sends NaN to 0.  i64::MAX and i64::MIN
\* lie beyond the integers of the checker and are recorded in `sat`; the
\* finite values explored are integers of at most 31 bits.
F64ToI64(f) ==
    CASE f.cls = "nan" -> [inner |-> 0, sat |-> "no"]
      [] f.cls = "zero" -> [inner |-> 0, sat |-> "no"]
      [] f.cls = "inf" -> [inner |-> 0, sat |-> IF f.neg THEN "min" ELSE "max"]
      [] f.cls = "finite" /\ f.exp >= 63 ->
             [inner |-> 0, sat |-> IF f.neg THEN "min" ELSE "max"]
      [] OTHER ->
             LET whole == F64Trunc(f)
                 n == IF whole.cls = "zero" THEN 0
                      ELSE IntOfBits(SubSeq(whole.bits, 1, whole.exp + 1))
             IN [inner |-> IF f.neg THEN 0 - n ELSE n, sat |-> "no"]

\* `as f64` on an i64 (exact below 2^53; i64::MAX rounds to 2^63)
I64ToF64(a) ==
    IF a.sat # "no"
    THEN [cls |-> "finite", neg |-> a.sat = "min",
          bits |-> <<1>> \o Zeros(MantBits - 1), exp |-> 63]
    ELSE IF a.inner = 0 THEN F64Zero
    ELSE LET n == IF a.inner < 0 THEN 0 - a.inner ELSE a.inner
             b == BinOf(n)
         IN [cls |-> "finite", neg |-> a.inner < 0,
             bits |-> b \o Zeros(MantBits - Len(b)), exp |-> Len(b) - 1]

\* Amount::try_from_f64: never an Err
try_from_f64(f) ==
    LET amount == F64ToI64(F64Trunc(F64MulSmall(f, Scale)))
    IN [tag |-> "ok", inner |-> amount.inner, sat |-> amount.sat]

\* Amount::as_f64
as_f64(a) == F64DivSmall(I64ToF64(a), Scale)

\* the amount columns explored: every four-decimal text up to MaxUnits with
\* either sign, the columns of the repository's tests, NaN and the infinities
AmountFields ==
    [cls : {"finite"}, neg : BOOLEAN, digits : 0..MaxUnits, scale : {DECIMALS_PRECISION}]
    \cup {[cls |-> "finite", neg |-> FALSE, digits |-> 5, scale |-> 0],
          [cls |-> "finite", neg |-> FALSE, digits |-> 50, scale |-> 1],
          [cls |-> "finite", neg |-> FALSE, digits |-> 59999, scale |-> 4],
          [cls |-> "finite", neg |-> FALSE, digits |-> 50000999, scale |-> 7],
          [cls |-> "finite", neg |-> FALSE, digits |-> 500009999, scale |-> 8],
          [cls |-> "finite", neg |-> FALSE, digits |-> 153349999, scale |-> 8]}
    \cup {[cls |-> "nan", neg |-> FALSE, digits |-> 0, scale |-> 0]}
    \cup [cls : {"inf"}, neg : BOOLEAN, digits : {0}, scale : {0}]

InitAmount == Start /\ limit = 0 /\ amountField \in AmountFields

\* impl Deserialize for Amount: an Err of try_from_f64 becomes the error
\* that `result?` returns from process
DeserializeAmount ==
    /\ status = "running"
    /\ parsed.tag = "none"
    /\ LET r == try_from_f64(ParseF64(amountField))
       IN /\ parsed' = r
          /\ status' = IF r.tag = "ok" THEN status ELSE "error"
    /\ UNCHANGED <<accounts, txns, output, nread, limit, last, pre, chargedBack,
                   reused, seenTx, amountField, shown>>

\* impl Serialize for Amount
SerializeAmount ==
    /\ status = "running"
    /\ parsed.tag = "ok"
    /\ shown.cls = "none"
    /\ shown' = as_f64(parsed)
    /\ UNCHANGED <<accounts, txns, status, output, nread, limit, last, pre,
                   chargedBack, reused, seenTx, amountField, parsed>>

NextAmount ==
    \/ DeserializeAmount
    \/ SerializeAmount

SpecAmount == InitAmount /\ [][NextAmount]_vars

(***************************************************************************)
(* Properties.  `last` is the record the latest iteration handled and      *)
(* `pre` holds both maps as they were before it, so a property of one      *)
(* record's effect is a predicate on (pre, last, current state).           *)
(***************************************************************************)

\* the stored transaction the latest record refers to, before it was handled
RefKnown == last.tx \in DOMAIN pre.txns
RefTxn == pre.txns[last.tx]
ClientKnown == last.client \in DOMAIN pre.accounts
OldAccount == pre.accounts[last.client]
NewAccount == accounts[last.client]

\* nothing but the account of the record's client changed
OnlyClientAccountChanged ==
    /\ DOMAIN accounts = DOMAIN pre.accounts
    /\ \A c \in DOMAIN accounts \ {last.client} : accounts[c] = pre.accounts[c]

\* nothing but the state of the referenced transaction changed
OnlyRefStateChanged(state) ==
    txns = [pre.txns EXCEPT ![last.tx].state = state]

DisputeCase ==
    /\ last.kind = "dispute"
    /\ RefKnown /\ RefTxn.state = "Undisputed"
    /\ ClientKnown

ResolveCase ==
    /\ last.kind = "resolve"
    /\ RefKnown /\ RefTxn.state = "Disputed"
    /\ ClientKnown

ChargeBackCase ==
    /\ last.kind = "chargeback"
    /\ RefKnown /\ RefTxn.state = "Disputed"
    /\ ClientKnown

\* C1: after any prefix of any record sequence every account has
\* total = available + held, also when a dispute names a client other than
\* the transaction's owner and when tx ids are used again.
C1_TotalIsAvailablePlusHeld ==
    \A c \in DOMAIN accounts :
        accounts[c].total = accounts[c].available + accounts[c].held

\* a chargeback was applied to the account of a client who does not own the
\* transaction, leaving that account with funds on both sides
C1_Witness ==
    /\ ChargeBackCase
    /\ RefTxn.client # last.client
    /\ RefTxn.amount # 0
    /\ NewAccount.total # 0

\* C2: every Deposit or Withdrawal record that was processed is stored under
\* its tx id with state Undisputed, whatever its outcome (credited, debited,
\* refused for insufficient funds, discarded because the account is locked).
C2_EveryTxnRecordStored ==
    (last.kind \in TxnKinds /\ status \in {"running", "done"}) =>
        /\ last.tx \in DOMAIN txns
        /\ txns[last.tx] = TxnRecord(last.kind, last.client, last.tx, last.amount)

\* C3: a Dispute on an Undisputed transaction (deposit or withdrawal) moves
\* exactly the stored amount from available to held on the account of the
\* dispute record's own client, leaves total and locked alone, and sets the
\* transaction's state to Disputed; nothing else changes.
C3_DisputeMovesAvailableToHeld ==
    DisputeCase =>
        /\ NewAccount.available = OldAccount.available - RefTxn.amount
        /\ NewAccount.held = OldAccount.held + RefTxn.amount
        /\ NewAccount.total = OldAccount.total
        /\ NewAccount.locked = OldAccount.locked
        /\ OnlyClientAccountChanged
        /\ OnlyRefStateChanged("Disputed")
        /\ status # "panicked"

\* a withdrawal was disputed under a client who is not its owner
C3_Witness ==
    /\ DisputeCase
    /\ RefTxn.kind = "withdrawal"
    /\ RefTxn.client # last.client
    /\ RefTxn.amount > 0

\* C4: a ChargeBack applies only when the referenced transaction is
\* Disputed; it then takes the amount out of held and total of the
\* chargeback record's client account (available unchanged), locks that
\* account and sets the transaction's state to Reversed.
C4_ChargeBackRemovesHeldAndLocks ==
    (last.kind = "chargeback") =>
        IF RefKnown /\ RefTxn.state = "Disputed"
        THEN ClientKnown =>
                /\ NewAccount.held = OldAccount.held - RefTxn.amount
                /\ NewAccount.total = OldAccount.total - RefTxn.amount
                /\ NewAccount.available = OldAccount.available
                /\ NewAccount.locked
                /\ OnlyClientAccountChanged
                /\ OnlyRefStateChanged("Reversed")
                /\ status # "panicked"
        ELSE accounts = pre.accounts /\ txns = pre.txns

\* a chargeback was applied to an account that was not locked before
C4_Witness ==
    /\ ChargeBackCase
    /\ ~OldAccount.locked
    /\ RefTxn.amount > 0
    /\ RefTxn.client = last.client

\* C5: a Resolve applies only when the referenced transaction is Disputed;
\* it then moves the amount from held back to available on the resolve
\* record's client account (total and locked unchanged) and returns the
\* transaction to Undisputed, the state in which a Dispute applies.
C5_ResolveReleasesHeld ==
    (last.kind = "resolve") =>
        IF RefKnown /\ RefTxn.state = "Disputed"
        THEN ClientKnown =>
                /\ NewAccount.held = OldAccount.held - RefTxn.amount
                /\ NewAccount.available = OldAccount.available + RefTxn.amount
                /\ NewAccount.total = OldAccount.total
                /\ NewAccount.locked = OldAccount.locked
                /\ OnlyClientAccountChanged
                /\ OnlyRefStateChanged("Undisputed")
                /\ DisputeApplies(txns[last.tx])
                /\ status # "panicked"
        ELSE accounts = pre.accounts /\ txns = pre.txns

\* a dispute of a positive amount was resolved
C5_Witness ==
    /\ ResolveCase
    /\ RefTxn.amount > 0
    /\ OldAccount.held > 0

\* C6 as stated: once a ChargeBack has been applied to a tx id, no later
\* Dispute, Resolve or ChargeBack record referencing that tx id changes any
\* account.
C6_NoAccountChangeAfterChargeBack ==
    [][(last'.kind \in DisputeKinds /\ nread' # nread /\ last'.tx \in chargedBack)
         => accounts' = accounts]_vars

\* C6 as amended: once a ChargeBack has been applied to a tx id, and as long
\* as no later Deposit or Withdrawal record has been stored under that tx
\* id, no Dispute, Resolve or ChargeBack record referencing it changes any
\* account or any stored transaction.
C6_NoAccountChangeWhileReversed ==
    [][(last'.kind \in DisputeKinds /\ nread' # nread
           /\ last'.tx \in chargedBack \ reused)
         => (accounts' = accounts /\ txns' = txns)]_vars

\* a dispute-family record arrived for a charged-back tx id whose client has
\* an account with funds
C6_Witness ==
    /\ last.kind \in DisputeKinds
    /\ last.tx \in chargedBack \ reused
    /\ RefKnown /\ RefTxn.state = "Reversed"
    /\ ClientKnown
    /\ RefTxn.amount # 0

\* the kind of a dispute-family record against the state it requires
KindApplies(kind, txn) ==
    CASE kind = "dispute" -> txn.state = "Undisputed"
      [] kind = "resolve" -> txn.state = "Disputed"
      [] kind = "chargeback" -> txn.state = "Disputed"

MismatchCase ==
    /\ last.kind \in DisputeKinds
    /\ RefKnown
    /\ ~KindApplies(last.kind, RefTxn)

\* C7: a dispute-family record whose kind does not match the referenced
\* transaction's state leaves every account and every stored transaction
\* unchanged and does not abort the run, also when its client has no
\* account; so a second identical Dispute changes nothing.
C7_MismatchIsNoOp ==
    MismatchCase =>
        /\ accounts = pre.accounts
        /\ txns = pre.txns
        /\ status \notin {"panicked", "error"}

\* a Dispute hit a transaction already under dispute, under a client that
\* has no account
C7_Witness ==
    /\ MismatchCase
    /\ last.kind = "dispute"
    /\ RefTxn.state = "Disputed"
    /\ ~ClientKnown

\* C8 as stated: a dispute-family record whose own client has no account
\* aborts the whole run.
C8_MissingAccountAlwaysAborts ==
    (last.kind \in DisputeKinds /\ ~ClientKnown) => status = "panicked"

\* C8 as amended: a dispute-family record whose referenced transaction is
\* stored and in the state the record's kind requires, and whose own client
\* has no account, aborts the run (both maps untouched, nothing written);
\* with an unknown tx id or a state that does not match it is skipped.
C8_MissingAccountAbortsWhenApplicable ==
    (last.kind \in DisputeKinds /\ ~ClientKnown) =>
        IF RefKnown /\ KindApplies(last.kind, RefTxn)
        THEN /\ status = "panicked"
             /\ accounts = pre.accounts /\ txns = pre.txns
             /\ output = EmptyMap
        ELSE /\ status # "panicked"
             /\ accounts = pre.accounts /\ txns = pre.txns

\* a stored, undisputed transaction was disputed under a client without an
\* account
C8_Witness ==
    /\ last.kind = "dispute"
    /\ ~ClientKnown
    /\ RefKnown /\ RefTxn.state = "Undisputed"
    /\ status = "panicked"

\* C9: a Deposit or Withdrawal record for a client whose account is locked
\* changes none of available, held and total, whatever the amount (and no
\* other account either).
C9_LockedAccountIsFrozen ==
    (last.kind \in TxnKinds /\ ClientKnown /\ OldAccount.locked) =>
        /\ NewAccount.available = OldAccount.available
        /\ NewAccount.held = OldAccount.held
        /\ NewAccount.total = OldAccount.total
        /\ accounts = pre.accounts

\* a withdrawal the available funds would have covered reached a locked
\* account
C9_Witness ==
    /\ last.kind = "withdrawal"
    /\ ClientKnown /\ OldAccount.locked
    /\ last.amount # 0
    /\ OldAccount.available >= last.amount

\* C10: an account that exists and is locked after some record exists and
\* is locked after every later record.
C10_LockedIsMonotonic ==
    [][\A c \in DOMAIN accounts :
          accounts[c].locked => (c \in DOMAIN accounts' /\ accounts'[c].locked)]_vars

\* a record for a locked client was handled after the lock
C10_Witness ==
    /\ ClientKnown /\ OldAccount.locked
    /\ last.kind \in TxnKinds \cup DisputeKinds
    /\ NewAccount.locked
    /\ nread = limit

\* C11: a Withdrawal on an existing unlocked account succeeds exactly when
\* available >= amount and then takes the amount out of available and total
\* (held unchanged); with available < amount the account is unchanged; in
\* both cases nothing else changes and the run goes on without error.
C11_WithdrawOnlyWhenCovered ==
    (last.kind = "withdrawal" /\ ClientKnown /\ ~OldAccount.locked) =>
        /\ IF OldAccount.available >= last.amount
           THEN /\ NewAccount.available = OldAccount.available - last.amount
                /\ NewAccount.total = OldAccount.total - last.amount
           ELSE /\ NewAccount.available = OldAccount.available
                /\ NewAccount.total = OldAccount.total
        /\ NewAccount.held = OldAccount.held
        /\ NewAccount.locked = OldAccount.locked
        /\ OnlyClientAccountChanged
        /\ status \in {"running", "done"}

\* a withdrawal of exactly the available, positive funds
C11_Witness ==
    /\ last.kind = "withdrawal" /\ ClientKnown /\ ~OldAccount.locked
    /\ last.amount > 0
    /\ OldAccount.available = last.amount

\* C12: when a record is malformed (or the run is otherwise aborted) the
\* run ends in an error and no account row is written, whatever accounts
\* the earlier records formed.
C12_ErrorWritesNothing ==
    (status \in {"error", "panicked"}) => output = EmptyMap

\* a malformed record arrived after records that formed an account with
\* funds
C12_Witness ==
    /\ status = "error"
    /\ last.kind = "malformed"
    /\ \E c \in DOMAIN accounts : accounts[c].total # 0

\* C13: a dispute-family record referencing a tx id that is not stored
\* changes no account, creates none and raises no error; a finished run in
\* which nothing was ever stored writes nothing.
C13_UnknownTxIsNoOp ==
    /\ (last.kind \in DisputeKinds /\ ~RefKnown) =>
           /\ accounts = pre.accounts
           /\ txns = pre.txns
           /\ status \in {"running", "done"}
    /\ (status = "done" /\ txns = EmptyMap) => output = EmptyMap

\* a run of two records, both dispute-family records on unknown tx ids,
\* has finished
C13_Witness ==
    /\ last.kind \in DisputeKinds /\ ~RefKnown
    /\ txns = EmptyMap
    /\ nread = 2
    /\ status = "done"

\* C14: a Withdrawal for a client without an account creates that account
\* with available, held and total zero and locked false, whatever the
\* amount, and touches no other account.
C14_WithdrawalCreatesZeroAccount ==
    (last.kind = "withdrawal" /\ ~ClientKnown) =>
        /\ accounts = Insert(pre.accounts, last.client, AccountNew(last.client))
        /\ NewAccount.available = 0 /\ NewAccount.held = 0
        /\ NewAccount.total = 0 /\ ~NewAccount.locked
        /\ status \in {"running", "done"}

\* a withdrawal of a negative amount (which a zero balance would cover) for
\* a new client
C14_Witness ==
    /\ last.kind = "withdrawal" /\ ~ClientKnown
    /\ last.amount < 0

\* C15: a Deposit for an unknown client (account created zeroed) or for a
\* known unlocked client makes available and total grow by exactly the
\* amount and leaves held and locked as they were.
C15_DepositCredits ==
    (last.kind = "deposit" /\ (ClientKnown => ~OldAccount.locked)) =>
        LET old == IF ClientKnown THEN OldAccount ELSE AccountNew(last.client) IN
        /\ last.client \in DOMAIN accounts
        /\ NewAccount.available = old.available + last.amount
        /\ NewAccount.total = old.total + last.amount
        /\ NewAccount.held = old.held
        /\ NewAccount.locked = old.locked
        /\ NewAccount.client = last.client
        /\ \A c \in DOMAIN pre.accounts \ {last.client} :
               c \in DOMAIN accounts /\ accounts[c] = pre.accounts[c]

\* a deposit reached a known unlocked account that holds disputed funds
C15_Witness ==
    /\ last.kind = "deposit" /\ ClientKnown /\ ~OldAccount.locked
    /\ OldAccount.held # 0
    /\ last.amount > 0

(***************************************************************************)
(* Properties of well-formed inputs, checked under SpecWellFormed, whose   *)
(* records carry no negative amount, never repeat a tx id and dispute a    *)
(* stored transaction only under its own client.                           *)
(***************************************************************************)

\* C18 as stated: on well-formed inputs no account's available funds are
\* negative after any record.
C18_AvailableNeverNegative ==
    \A c \in DOMAIN accounts : accounts[c].available >= 0

\* C18 as amended: on well-formed inputs an account's available funds are
\* negative after a record only if they were negative before it or the
\* record is a Dispute applied to that account; no Deposit, Withdrawal,
\* Resolve or ChargeBack takes available below zero.
C18_OnlyDisputeOverdraws ==
    \A c \in DOMAIN accounts :
        accounts[c].available < 0 =>
            \/ c \in DOMAIN pre.accounts /\ pre.accounts[c].available < 0
            \/ DisputeCase /\ last.client = c

\* a Dispute took the available funds of its own client below zero
C18_Witness ==
    /\ DisputeCase
    /\ RefTxn.client = last.client
    /\ OldAccount.available >= 0
    /\ NewAccount.available < 0

\* the stored transactions of client c that are under dispute
DisputedOf(c) ==
    {tx \in DOMAIN txns : txns[tx].client = c /\ txns[tx].state = "Disputed"}

RECURSIVE SumAmounts(_)
SumAmounts(S) ==
    IF S = {} THEN 0
    ELSE LET tx == CHOOSE t \in S : TRUE
         IN txns[tx].amount + SumAmounts(S \ {tx})

\* C19: on well-formed inputs every account's held funds equal the sum of
\* the amounts of that client's stored transactions in state Disputed.
C19_HeldIsSumOfDisputed ==
    \A c \in DOMAIN accounts : accounts[c].held = SumAmounts(DisputedOf(c))

\* a client has two transactions under dispute, one of them re-disputed or
\* disputed late, and funds held for both
C19_Witness ==
    \E c \in DOMAIN accounts :
        /\ Cardinality(DisputedOf(c)) = 2
        /\ accounts[c].held = 2

\* C20: on well-formed inputs an account is locked exactly when a stored
\* transaction of that client is in state Reversed.
C20_LockedIffReversed ==
    \A c \in DOMAIN accounts :
        accounts[c].locked <=>
            \E tx \in DOMAIN txns : txns[tx].client = c /\ txns[tx].state = "Reversed"

\* one client is locked by a chargeback while the other client's account,
\* with a transaction under dispute, is not
C20_Witness ==
    \E c, d \in DOMAIN accounts :
        /\ accounts[c].locked
        /\ ~accounts[d].locked
        /\ DisputedOf(d) # {}

(***************************************************************************)
(* Properties of the amount conversion, checked under SpecAmount.          *)
(***************************************************************************)

\* C16: constructing an Amount from a value that is not a finite decimal
\* (NaN, an infinity) fails with an error, the error aborts the run, and no
\* Amount is produced from such a value.
C16_NonFiniteIsRejected ==
    (amountField.cls \in {"nan", "inf"} /\ parsed.tag # "none") =>
        /\ parsed.tag = "err"
        /\ status = "error"

\* the decimal x of a finite amount column, truncated toward zero to
\* DECIMALS_PRECISION fractional digits, in units of 10^-DECIMALS_PRECISION
TruncatedUnits(text) ==
    IF text.scale >= DECIMALS_PRECISION
    THEN text.digits \div (10 ^ (text.scale - DECIMALS_PRECISION))
    ELSE text.digits * (10 ^ (DECIMALS_PRECISION - text.scale))

\* C17: for every finite decimal x, the Amount built from x stores x
\* truncated toward zero to 4 fractional digits, and converting it back
\* yields that truncated decimal.
C17_RoundTripTruncates ==
    (amountField.cls = "finite" /\ shown.cls # "none") =>
        LET t == TruncatedUnits(amountField) IN
        /\ parsed.sat = "no"
        /\ parsed.inner = IF amountField.neg THEN 0 - t ELSE t
        /\ shown = DecimalToF64(amountField.neg, t, DECIMALS_PRECISION)

\* the columns of tests::handles_decimals_precision are reported as 5.0
TestsDecimalsPrecision ==
    (/\ amountField.cls = "finite"
     /\ <<amountField.digits, amountField.scale>>
            \in {<<5, 0>>, <<50, 1>>, <<50000999, 7>>, <<500009999, 8>>}
     /\ shown.cls # "none")
        => parsed.inner = 50000 /\ shown = DecimalToF64(FALSE, 5, 0)
====
